---- MODULE Spec2Model ----
(***************************************************************************)
(* Model of the CARMINE-T2.4 helpers:                                      *)
(*   notebooks/_lib/paths.py            INDICATORS directory resolution    *)
(*   Birmingham/indicator_Birmingham_MO.py   climate indicator wrappers    *)
(*                                                                         *)
(* Three specifications share the variables below:                         *)
(*   SpecPaths  a directory tree is built under root (mkdir / touch) and   *)
(*              then iter_indicators_dirs or resolve_indicator_by_basename *)
(*              is called on it;                                           *)
(*   SpecGdd    gdd_baker is applied to bounded temperature series;        *)
(*   SpecInd    every indicator function is called with every outcome of   *)
(*              the library call it wraps.                                 *)
(***************************************************************************)
EXTENDS Integers, Sequences, FiniteSets

VARIABLES
    rootParts,  \* paths.py: parts of the `root` argument (a Path)
    dirs,       \* directories below root, each a sequence of names under root
    files,      \* regular files below root, each a sequence of names
    phase,      \* "setup" while the tree is built, "called" after a call
    op,         \* the function that was called ("none" before)
    arg,        \* its basename / (tbase, freq) / library outcome argument
    dirsRet,    \* list returned by iter_indicators_dirs
    hits,       \* the list `hits` of resolve_indicator_by_basename
    outcome,    \* "none", "return" or the name of the exception raised
    ret,        \* the value returned (NoValue when nothing was returned)
    tasmax,     \* gdd_baker: input maximum-temperature DataArray
    tasmin,     \* gdd_baker: input minimum-temperature DataArray
    locals      \* gdd_baker: its local arrays (tasmax_daily, ..., D)

vars == <<rootParts, dirs, files, phase, op, arg, dirsRet, hits, outcome, ret,
          tasmax, tasmin, locals>>

\* Python's "nothing was returned / not set yet"
NoValue == [none |-> TRUE]

(***************************************************************************)
(* Bounds                                                                  *)
(***************************************************************************)
MaxDepth == 3    \* deepest path below root
MaxNodes == 4    \* files + directories below root
MaxSamples == 2  \* sub-daily samples per day in an input series

(***************************************************************************)
(* paths.py                                                                *)
(***************************************************************************)

\* File names of the model, in the order Python compares them (code points:
\* '.' < 'I' < 'c' < 'f' < 'o').  ".venv" is hidden but not in ignore_parts.
NameOrder == <<".git", ".venv", "INDICATORS", "csa", "f.nc", "outputs">>
NameRank(n) == CHOOSE i \in 1..Len(NameOrder) : NameOrder[i] = n

\* names given to directories, to files, and the basenames looked up
DirNames == {".git", ".venv", "INDICATORS", "csa", "outputs"}
FileNames == {"f.nc", "INDICATORS"}
Basenames == {"f.nc"}

\* root arguments: a plain checkout, and one that itself lies under outputs/
RootChoices == {<<"/", "repo">>, <<"/", "outputs", "repo">>}

\* ignore_parts of iter_indicators_dirs
ignore_parts == {"outputs", ".git", ".ipynb_checkpoints", ".cache"}

Nodes == dirs \cup files

\* q lies strictly below p
IsBelow(q, p) == Len(p) < Len(q) /\ SubSeq(q, 1, Len(p)) = p

BaseName(p) == p[Len(p)]

\* Path.parts of root / p: the parts of root followed by the names of p
Parts(root, p) == {root[i] : i \in 1..Len(root)} \cup {p[i] : i \in 1..Len(p)}

\* Path.__lt__: lexicographic comparison of the parts (same root for both)
RECURSIVE PathLess(_, _)
PathLess(p, q) ==
    IF q = <<>> THEN FALSE
    ELSE IF p = <<>> THEN TRUE
    ELSE IF p[1] # q[1] THEN NameRank(p[1]) < NameRank(q[1])
    ELSE PathLess(Tail(p), Tail(q))

\* sorted(S) for a set of paths
RECURSIVE Sorted(_)
Sorted(S) ==
    IF S = {} THEN <<>>
    ELSE LET m == CHOOSE p \in S : \A q \in S \ {p} : PathLess(p, q)
         IN <<m>> \o Sorted(S \ {m})

\* d.rglob(pattern) for a pattern without wildcards: every entry below d,
\* file or directory, whose name is the pattern.  The order in which the
\* file system lists them is modelled as the sorted one.
RGlob(d, pattern) ==
    Sorted({p \in Nodes : IsBelow(p, d) /\ BaseName(p) = pattern})

\* iter_indicators_dirs(root)
IterIndicatorsDirs(root) ==
    Sorted({p \in Nodes :
               /\ IsBelow(p, <<>>)
               /\ BaseName(p) = "INDICATORS"
               /\ p \in dirs
               /\ Parts(root, p) \cap ignore_parts = {}})

\* iter_indicator_files(pattern, root): the generator's items, in order
RECURSIVE ConcatRGlob(_, _)
ConcatRGlob(ds, pattern) ==
    IF ds = <<>> THEN <<>>
    ELSE RGlob(Head(ds), pattern) \o ConcatRGlob(Tail(ds), pattern)

IterIndicatorFiles(pattern, root) ==
    ConcatRGlob(IterIndicatorsDirs(root), pattern)

\* resolve_indicator_by_basename(basename, root): outcome and value
ResolveOutcome(h) ==
    IF h = <<>> THEN "FileNotFoundError"
    ELSE IF Len(h) > 1 THEN "FileExistsError"
    ELSE "return"

ResolveIndicatorByBasename(basename, root) ==
    LET h == IterIndicatorFiles(basename, root)
    IN [hits |-> h,
        outcome |-> ResolveOutcome(h),
        ret |-> IF ResolveOutcome(h) = "return" THEN h[1] ELSE NoValue]

\* ---- actions of SpecPaths ----

\* os.mkdir(root / parent / name)
Mkdir(parent, name) ==
    /\ phase = "setup"
    /\ parent = <<>> \/ parent \in dirs
    /\ Append(parent, name) \notin Nodes
    /\ Len(parent) < MaxDepth
    /\ Cardinality(Nodes) < MaxNodes
    /\ dirs' = dirs \cup {Append(parent, name)}
    /\ UNCHANGED <<rootParts, files, phase, op, arg, dirsRet, hits, outcome,
                   ret, tasmax, tasmin, locals>>

\* open(root / parent / name, "w")
Touch(parent, name) ==
    /\ phase = "setup"
    /\ parent = <<>> \/ parent \in dirs
    /\ Append(parent, name) \notin Nodes
    /\ Len(parent) < MaxDepth
    /\ Cardinality(Nodes) < MaxNodes
    /\ files' = files \cup {Append(parent, name)}
    /\ UNCHANGED <<rootParts, dirs, phase, op, arg, dirsRet, hits, outcome,
                   ret, tasmax, tasmin, locals>>

CallIterIndicatorsDirs ==
    /\ phase = "setup"
    /\ phase' = "called"
    /\ op' = "iter_indicators_dirs"
    /\ dirsRet' = IterIndicatorsDirs(rootParts)
    /\ outcome' = "return"
    /\ ret' = dirsRet'
    /\ UNCHANGED <<rootParts, dirs, files, arg, hits, tasmax, tasmin, locals>>

CallResolve(basename) ==
    /\ phase = "setup"
    /\ phase' = "called"
    /\ op' = "resolve_indicator_by_basename"
    /\ arg' = basename
    /\ LET r == ResolveIndicatorByBasename(basename, rootParts)
       IN /\ hits' = r.hits
          /\ outcome' = r.outcome
          /\ ret' = r.ret
    /\ dirsRet' = IterIndicatorsDirs(rootParts)
    /\ UNCHANGED <<rootParts, dirs, files, tasmax, tasmin, locals>>

NoData == <<>>

InitPaths ==
    /\ rootParts \in RootChoices
    /\ dirs = {}
    /\ files = {}
    /\ phase = "setup"
    /\ op = "none"
    /\ arg = NoValue
    /\ dirsRet = <<>>
    /\ hits = <<>>
    /\ outcome = "none"
    /\ ret = NoValue
    /\ tasmax = NoData
    /\ tasmin = NoData
    /\ locals = NoValue

NextPaths ==
    \/ \E parent \in {<<>>} \cup dirs, name \in DirNames :
          Mkdir(parent, name)
    \/ \E parent \in {<<>>} \cup dirs, name \in FileNames :
          Touch(parent, name)
    \/ CallIterIndicatorsDirs
    \/ \E basename \in Basenames : CallResolve(basename)

SpecPaths == InitPaths /\ [][NextPaths]_vars

(***************************************************************************)
(* indicator_Birmingham_MO.py : gdd_baker                                  *)
(*                                                                         *)
(* Temperatures are integers in units of 0.01 degC (or 0.01 K).  Every     *)
(* degC value of the model is a multiple of 4, so the divisions by 2 and   *)
(* by 4 of the code are exact under \div; floating-point rounding and NaN  *)
(* are not modelled.                                                       *)
(***************************************************************************)

\* 273.15 K, the offset convert_units_to applies between K and degC
KelvinOffset == 27315

DegCValues == {800, 1000, 1300}     \* 8, 10 and 13 degC
TBases == {900, 1000, 1200}         \* tbase arguments, 10 being the default
Freqs == {"YS", "MS", "QS-DEC"}
Units == {"degC", "K"}

\* Time axes: two consecutive calendar days, within a month and across the
\* boundary of a month, a season and a year.
TimeAxes ==
    { <<[y |-> 2000, m |-> 11, d |-> 29], [y |-> 2000, m |-> 11, d |-> 30]>>,
      <<[y |-> 2000, m |-> 11, d |-> 30], [y |-> 2000, m |-> 12, d |-> 1]>>,
      <<[y |-> 2000, m |-> 12, d |-> 31], [y |-> 2001, m |-> 1, d |-> 1]>>,
      <<[y |-> 2001, m |-> 2, d |-> 28], [y |-> 2001, m |-> 3, d |-> 1]>> }

SetMax(S) == CHOOSE x \in S : \A z \in S : z <= x
SetMin(S) == CHOOSE x \in S : \A z \in S : x <= z

\* the sets of values sampled within one day
SampleSets(u) ==
    LET off == IF u = "K" THEN KelvinOffset ELSE 0
        base == {S \in SUBSET DegCValues :
                    Cardinality(S) >= 1 /\ Cardinality(S) <= MaxSamples}
    IN {{v + off : v \in S} : S \in base}

\* input DataArrays on a time axis: units and, per day, the sampled values
InputArrays(axis) ==
    UNION {[units : {u}, time : {axis},
            samples : [1..Len(axis) -> SampleSets(u)]] : u \in Units}

\* da.resample(time="D").max(keep_attrs=True)
ResampleDailyMax(da) ==
    [units |-> da.units, time |-> da.time,
     values |-> [i \in 1..Len(da.time) |-> SetMax(da.samples[i])]]

\* da.resample(time="D").min(keep_attrs=True)
ResampleDailyMin(da) ==
    [units |-> da.units, time |-> da.time,
     values |-> [i \in 1..Len(da.time) |-> SetMin(da.samples[i])]]

\* convert_units_to(da, "degC")
ConvertUnitsToDegC(da) ==
    IF da.units = "K"
    THEN [da EXCEPT !.units = "degC",
                    !.values = [i \in DOMAIN da.values |->
                                   da.values[i] - KelvinOffset]]
    ELSE da

\* the third test written as tavg >= tbase
DailyBranchMeanInclusive(tx, tn, tavg, tbase) ==
    IF tx <= tbase THEN 1
    ELSE IF tn >= tbase THEN 2
    ELSE IF tavg >= tbase THEN 3
    ELSE 4

\* the nested xr.where: which operand is selected for one day
DailyBranch(tx, tn, tavg, tbase) ==
    IF tx <= tbase THEN 1
    ELSE IF tn >= tbase THEN 2
    ELSE IF tavg > tbase THEN 3
    ELSE 4

\* the four operands of the nested xr.where
BranchValue(b, tx, tn, tbase) ==
    CASE b = 1 -> 0
      [] b = 2 -> (tx + tn) \div 2 - tbase
      [] b = 3 -> (tx - tbase) \div 2 + (tbase - tn) \div 4
      [] b = 4 -> (tx - tbase) \div 4

DailyD(tx, tn, tavg, tbase) ==
    BranchValue(DailyBranch(tx, tn, tavg, tbase), tx, tn, tbase)

\* start of the resampling period a day falls in
PeriodStart(day, freq) ==
    CASE freq = "YS" -> [y |-> day.y, m |-> 1]
      [] freq = "MS" -> [y |-> day.y, m |-> day.m]
      [] freq = "QS-DEC" ->
            IF day.m = 12 THEN [y |-> day.y, m |-> 12]
            ELSE IF day.m <= 2 THEN [y |-> day.y - 1, m |-> 12]
            ELSE [y |-> day.y, m |-> 3 * (day.m \div 3)]

RECURSIVE SumOver(_, _)
SumOver(f, S) ==
    IF S = {} THEN 0
    ELSE LET i == CHOOSE j \in S : TRUE IN f[i] + SumOver(f, S \ {i})

\* values.resample(time=freq).sum(): one sum per period start
ResampleSum(time, values, freq) ==
    LET starts == {PeriodStart(time[i], freq) : i \in 1..Len(time)}
    IN [s \in starts |->
           SumOver(values, {i \in 1..Len(time) : PeriodStart(time[i], freq) = s})]

\* the frequency gdd_baker resamples D with
GddResampleFreq(freq) == "YS"

GddAttrs ==
    [long_name |-> "Number of growing degree days",
     description |-> "Annual Number of growing degree days calculated according to Baker et al (1980)",
     units |-> "1",
     cell_methods |-> "",
     standard_name |-> "growing_degree_days"]

\* the locals of gdd_baker(tasmax, tasmin, tbase, freq)
GddLocals(tx_in, tn_in, tbase, freq) ==
    LET tasmax_daily == ConvertUnitsToDegC(ResampleDailyMax(tx_in))
        tasmin_daily == ConvertUnitsToDegC(ResampleDailyMin(tn_in))
        days == 1..Len(tasmax_daily.time)
        tavg == [i \in days |->
                    (tasmax_daily.values[i] + tasmin_daily.values[i]) \div 2]
    IN [tasmax_daily |-> tasmax_daily,
        tasmin_daily |-> tasmin_daily,
        tavg |-> tavg,
        branch |-> [i \in days |->
                       DailyBranch(tasmax_daily.values[i],
                                   tasmin_daily.values[i], tavg[i], tbase)],
        D |-> [i \in days |->
                  DailyD(tasmax_daily.values[i], tasmin_daily.values[i],
                         tavg[i], tbase)]]

\* gdd_baker(tasmax, tasmin, tbase, freq); fault is the exception one of the
\* library calls raises, "none" when they all succeed
GddBaker(tbase, freq, fault) ==
    /\ phase = "setup"
    /\ phase' = "called"
    /\ op' = "gdd_baker"
    /\ arg' = [tbase |-> tbase, freq |-> freq, fault |-> fault]
    /\ IF fault # "none"
       THEN /\ outcome' = fault
            /\ ret' = NoValue
            /\ locals' = NoValue
       ELSE /\ locals' = GddLocals(tasmax, tasmin, tbase, freq)
            /\ outcome' = "return"
            /\ ret' = [values |-> ResampleSum(tasmax.time, locals'.D,
                                              GddResampleFreq(freq)),
                       attrs |-> GddAttrs]
    /\ UNCHANGED <<rootParts, dirs, files, dirsRet, hits, tasmax, tasmin>>

InitGdd ==
    /\ rootParts = <<"/", "repo">>
    /\ dirs = {}
    /\ files = {}
    /\ phase = "setup"
    /\ op = "none"
    /\ arg = NoValue
    /\ dirsRet = <<>>
    /\ hits = <<>>
    /\ outcome = "none"
    /\ ret = NoValue
    /\ locals = NoValue
    /\ \E axis \in TimeAxes :
          /\ tasmax \in InputArrays(axis)
          /\ tasmin \in InputArrays(axis)

NextGdd ==
    \E tbase \in TBases, freq \in Freqs : GddBaker(tbase, freq, "none")

SpecGdd == InitGdd /\ [][NextGdd]_vars

(***************************************************************************)
(* indicator_Birmingham_MO.py : the indicator wrappers                     *)
(*                                                                         *)
(* Each wrapper resamples its input to daily values and calls one xclim    *)
(* indicator.  Both library calls are inputs of the model: rs is "ok" or   *)
(* the exception the resampling raises, lib is the DataArray the indicator *)
(* returns or the exception it raises.                                     *)
(***************************************************************************)

\* exceptions a library call may raise; FitError derives from RuntimeError
Excs == {"FitError", "RuntimeError", "ValueError"}

ResampleOutcomes == {"ok"} \cup Excs

\* DataArrays an indicator may return, with the given units
LibArrays(us) ==
    {[units |-> u,
      values |-> <<v + (IF u = "K" THEN KelvinOffset ELSE 0)>>,
      long_name |-> "set by xclim"] : u \in us, v \in {800, 1000}}

LibOutcomes(us) ==
    [kind : {"ok"}, da : LibArrays(us)] \cup [kind : {"raise"}, exc : Excs]

\* xr.Dataset()
EmptyDataset == [data_vars |-> {}]

\* convert_units_to(da, "degC") on an indicator's result
ConvertResultToDegC(da) ==
    IF da.units = "K"
    THEN [da EXCEPT !.units = "degC",
                    !.values = [i \in DOMAIN da.values |->
                                   da.values[i] - KelvinOffset]]
    ELSE da

\* a wrapper without try/except: resample, call the indicator, return
\* `result` (the indicator's DataArray after the wrapper's own changes)
Wrapper(fn, rs, lib, result) ==
    /\ phase = "setup"
    /\ phase' = "called"
    /\ op' = fn
    /\ arg' = [resample |-> rs, lib |-> lib]
    /\ IF rs # "ok"
       THEN outcome' = rs /\ ret' = NoValue
       ELSE IF lib.kind = "raise"
       THEN outcome' = lib.exc /\ ret' = NoValue
       ELSE outcome' = "return" /\ ret' = result
    /\ UNCHANGED <<rootParts, dirs, files, dirsRet, hits, tasmax, tasmin,
                   locals>>

wetdays(rs, lib) == Wrapper("wetdays", rs, lib, lib.da)

cwd(rs, lib) == Wrapper("cwd", rs, lib, lib.da)

cdd(rs, lib) == Wrapper("cdd", rs, lib, lib.da)

prcptot(rs, lib) == Wrapper("prcptot", rs, lib, lib.da)

rx1day(rs, lib) == Wrapper("rx1day", rs, lib, lib.da)

\* an except clause that names another exception
SpiExceptMatchesWrong(exc) == exc = "ValueError"

\* the except clause of spi: the exceptions it handles
SpiExceptMatches(exc) == exc = "FitError"

spi(rs, lib) ==
    /\ phase = "setup"
    /\ phase' = "called"
    /\ op' = "spi"
    /\ arg' = [resample |-> rs, lib |-> lib]
    /\ IF rs # "ok"
       THEN outcome' = rs /\ ret' = NoValue
       ELSE IF lib.kind = "ok"
       THEN outcome' = "return" /\ ret' = lib.da
       ELSE IF SpiExceptMatches(lib.exc)
       THEN outcome' = "return" /\ ret' = EmptyDataset
       ELSE outcome' = lib.exc /\ ret' = NoValue
    /\ UNCHANGED <<rootParts, dirs, files, dirsRet, hits, tasmax, tasmin,
                   locals>>

txx(rs, lib) ==
    Wrapper("txx", rs, lib,
            IF lib.kind = "ok" THEN ConvertResultToDegC(lib.da) ELSE NoValue)

txn(rs, lib) ==
    Wrapper("txn", rs, lib,
            IF lib.kind = "ok" THEN ConvertResultToDegC(lib.da) ELSE NoValue)

\* the dictionary hot_spell of hot_spell_frequency
hot_spell ==
    [summer |-> [name |-> "summer_days", thresh |-> "25 degC", window |-> 1],
     hot |-> [name |-> "hot_days", thresh |-> "30 degC", window |-> 1],
     heatwave |-> [name |-> "heatwave_spell", thresh |-> "27 degC",
                   window |-> 3]]

\* hot_spell_type arguments: the three keys and one that is not a key
HotSpellTypes == {"summer", "hot", "heatwave", "cold"}

hot_spell_frequency(hot_spell_type, rs, lib) ==
    /\ phase = "setup"
    /\ phase' = "called"
    /\ op' = "hot_spell_frequency"
    /\ arg' = [resample |-> rs, lib |-> lib,
               hot_spell_type |-> hot_spell_type]
    /\ IF rs # "ok"
       THEN outcome' = rs /\ ret' = NoValue
       ELSE IF hot_spell_type \notin DOMAIN hot_spell
       THEN outcome' = "KeyError" /\ ret' = NoValue
       ELSE IF lib.kind = "raise"
       THEN outcome' = lib.exc /\ ret' = NoValue
       ELSE /\ outcome' = "return"
            /\ ret' = [lib.da EXCEPT
                          !.long_name = hot_spell[hot_spell_type].name]
    /\ UNCHANGED <<rootParts, dirs, files, dirsRet, hits, tasmax, tasmin,
                   locals>>

tropical_nights(rs, lib) == Wrapper("tropical_nights", rs, lib, lib.da)

growing_season_length(rs, lib) ==
    Wrapper("growing_season_length", rs, lib,
            IF lib.kind = "ok"
            THEN [lib.da EXCEPT !.long_name = "Growing season length"]
            ELSE NoValue)

\* the time axis of the inputs of SpecInd
IndAxis == <<[y |-> 2000, m |-> 11, d |-> 30]>>

InitInd ==
    /\ rootParts = <<"/", "repo">>
    /\ dirs = {}
    /\ files = {}
    /\ phase = "setup"
    /\ op = "none"
    /\ arg = NoValue
    /\ dirsRet = <<>>
    /\ hits = <<>>
    /\ outcome = "none"
    /\ ret = NoValue
    /\ locals = NoValue
    /\ tasmax \in InputArrays(IndAxis)
    /\ tasmin \in InputArrays(IndAxis)

NextInd ==
    \/ \E rs \in ResampleOutcomes, lib \in LibOutcomes({"days"}) :
          wetdays(rs, lib)
    \/ \E rs \in ResampleOutcomes, lib \in LibOutcomes({"days"}) :
          cwd(rs, lib)
    \/ \E rs \in ResampleOutcomes, lib \in LibOutcomes({"days"}) :
          cdd(rs, lib)
    \/ \E rs \in ResampleOutcomes, lib \in LibOutcomes({"mm"}) :
          prcptot(rs, lib)
    \/ \E rs \in ResampleOutcomes, lib \in LibOutcomes({"mm/day"}) :
          rx1day(rs, lib)
    \/ \E rs \in ResampleOutcomes, lib \in LibOutcomes({"1"}) :
          spi(rs, lib)
    \/ \E rs \in ResampleOutcomes, lib \in LibOutcomes(Units) :
          txx(rs, lib)
    \/ \E rs \in ResampleOutcomes, lib \in LibOutcomes(Units) :
          txn(rs, lib)
    \/ \E t \in HotSpellTypes, rs \in ResampleOutcomes,
          lib \in LibOutcomes({"1"}) :
          hot_spell_frequency(t, rs, lib)
    \/ \E rs \in ResampleOutcomes, lib \in LibOutcomes({"days"}) :
          tropical_nights(rs, lib)
    \/ \E rs \in ResampleOutcomes, lib \in LibOutcomes({"days"}) :
          growing_season_length(rs, lib)
    \/ \E tbase \in TBases, freq \in Freqs, fault \in {"none"} \cup Excs :
          GddBaker(tbase, freq, fault)

SpecInd == InitInd /\ [][NextInd]_vars

(***************************************************************************)
(* Properties                                                              *)
(***************************************************************************)

\* the files named b that lie below a directory named INDICATORS which
\* iter_indicators_dirs does not ignore
FilesBelowIndicators(b) ==
    {p \in files :
        /\ BaseName(p) = b
        /\ \E d \in dirs : /\ BaseName(d) = "INDICATORS"
                           /\ Parts(rootParts, d) \cap ignore_parts = {}
                           /\ IsBelow(p, d)}

\* the entries (files or directories) named b below such a directory
EntriesBelowIndicators(b) ==
    {p \in Nodes :
        /\ BaseName(p) = b
        /\ \E d \in dirs : /\ BaseName(d) = "INDICATORS"
                           /\ Parts(rootParts, d) \cap ignore_parts = {}
                           /\ IsBelow(p, d)}

\* names that start with '.'
IsHidden(n) == n \in {".git", ".venv"}

\* C1: when exactly one file named basename lies below a non-ignored
\* INDICATORS directory, resolve_indicator_by_basename returns the path of
\* that file and raises nothing, whatever the nesting of the directories
\* (an INDICATORS directory inside another INDICATORS directory included).
C1_ResolveReturnsTheUniqueFile ==
    (/\ op = "resolve_indicator_by_basename"
     /\ Cardinality(FilesBelowIndicators(arg)) = 1)
    => (outcome = "return" /\ ret \in FilesBelowIndicators(arg))

\* C2: resolve_indicator_by_basename raises FileNotFoundError both when
\* nothing named basename is found under any INDICATORS folder and when more
\* than one entry matches; it returns no path in either case.
C2_NotFoundOrAmbiguousRaisesFileNotFound ==
    (/\ op = "resolve_indicator_by_basename"
     /\ Cardinality(EntriesBelowIndicators(arg)) # 1)
    => (outcome = "FileNotFoundError" /\ outcome # "return")

\* C3: no directory returned by iter_indicators_dirs has, between root and
\* the INDICATORS directory, a component named outputs or a hidden component
\* (a name starting with '.').
C3_NoOutputsOrHiddenComponent ==
    op = "iter_indicators_dirs"
    => \A i \in 1..Len(dirsRet) : \A j \in 1..Len(dirsRet[i]) :
          dirsRet[i][j] # "outputs" /\ ~IsHidden(dirsRet[i][j])

\* C4: gdd_baker returns, for each period of its freq argument (month for
\* 'MS', season for 'QS-DEC', year for 'YS'), the sum of the daily
\* degree-day values D of that period.
C4_GddSummedOverFreqPeriods ==
    (op = "gdd_baker" /\ outcome = "return")
    => ret.values = ResampleSum(tasmax.time, locals.D, arg.freq)

OtherIndicators ==
    {"wetdays", "cwd", "cdd", "prcptot", "rx1day", "txx", "txn",
     "hot_spell_frequency", "tropical_nights", "growing_season_length"}

\* C5: spi is the only catch-and-return-empty case: when the SPI computation
\* raises FitError spi returns an empty Dataset and raises nothing; when it
\* succeeds spi returns its result unchanged; in every other indicator
\* function an error of a library call propagates to the caller and no empty
\* Dataset is returned.
C5_SpiIsTheOnlyCatch ==
    /\ (/\ op = "spi" /\ arg.resample = "ok"
        /\ arg.lib.kind = "raise" /\ arg.lib.exc = "FitError")
       => (outcome = "return" /\ ret = EmptyDataset)
    /\ (op = "spi" /\ arg.resample = "ok" /\ arg.lib.kind = "ok")
       => (outcome = "return" /\ ret = arg.lib.da)
    /\ (op \in OtherIndicators /\ arg.resample # "ok")
       => (outcome = arg.resample /\ ret = NoValue)
    /\ (/\ op \in OtherIndicators /\ arg.resample = "ok"
        /\ arg.lib.kind = "raise"
        /\ (op = "hot_spell_frequency"
               => arg.hot_spell_type \in DOMAIN hot_spell))
       => (outcome = arg.lib.exc /\ ret = NoValue)
    /\ (op = "gdd_baker" /\ arg.fault # "none")
       => (outcome = arg.fault /\ ret = NoValue)
    /\ (op \in OtherIndicators \cup {"gdd_baker"}) => ret # EmptyDataset

\* C5 witness: spi was called, the SPI computation raised FitError, and spi
\* returned the empty Dataset.
C5_Witness ==
    /\ op = "spi" /\ arg.resample = "ok"
    /\ arg.lib.kind = "raise" /\ arg.lib.exc = "FitError"
    /\ outcome = "return" /\ ret = EmptyDataset

\* C6: for every day, with tx, tn the daily maximum and minimum in degC, the
\* first matching branch decides D: D = 0 if tx <= tbase; else
\* D = (tx + tn)/2 - tbase if tn >= tbase; else
\* D = (tx - tbase)/2 + (tbase - tn)/4 if (tx + tn)/2 > tbase; else
\* D = (tx - tbase)/4.  The four cases below are exclusive and exhaustive;
\* tx = tbase is in the 1st, tn = tbase (reached with tx > tbase) in the 2nd
\* and mean = tbase (reached with tx > tbase > tn) in the 4th.
C6_DailyDegreeDayBranches ==
    (op = "gdd_baker" /\ outcome = "return")
    => \A i \in 1..Len(tasmax.time) :
          LET tx == locals.tasmax_daily.values[i]
              tn == locals.tasmin_daily.values[i]
              tb == arg.tbase
              b == locals.branch[i]
              D == locals.D[i]
          IN /\ locals.tasmax_daily.units = "degC"
             /\ locals.tasmin_daily.units = "degC"
             /\ (tx <= tb) => (b = 1 /\ D = 0)
             /\ (tx > tb /\ tn >= tb)
                => (b = 2 /\ 2 * D = tx + tn - 2 * tb)
             /\ (tx > tb /\ tn < tb /\ tx + tn > 2 * tb)
                => (b = 3 /\ 4 * D = 2 * (tx - tb) + (tb - tn))
             /\ (tx > tb /\ tn < tb /\ tx + tn <= 2 * tb)
                => (b = 4 /\ 4 * D = tx - tb)

\* C6 witness: gdd_baker ran on a day whose mean equals tbase with
\* tx > tbase > tn, and the 4th branch gave D = (tx - tbase)/4 > 0.
C6_Witness ==
    /\ op = "gdd_baker" /\ outcome = "return"
    /\ \E i \in 1..Len(tasmax.time) :
          /\ locals.tasmax_daily.values[i] > arg.tbase
          /\ locals.tasmin_daily.values[i] < arg.tbase
          /\ locals.tasmax_daily.values[i] + locals.tasmin_daily.values[i]
                = 2 * arg.tbase
          /\ locals.branch[i] = 4
          /\ locals.D[i] > 0

====
